---- MODULE Spec2Model ----
(***************************************************************************)
(* Model of SemiconductorRegimeLongShort (src/strategy.py): the scheduled  *)
(* Rebalance handler with its same-day guard, the regime classifier, the   *)
(* volatility targeter and the regime-to-weights portfolio constructor.    *)
(*                                                                         *)
(* Floating-point quantities are exact rationals <<n, d>> with d > 0;      *)
(* <<0, 0>> is NaN.  Statistics that need a square root (the rolling       *)
(* standard deviation behind the volatility scale and behind the alpha     *)
(* scores) are inputs of a cycle: they are functions of the history the    *)
(* environment returns.                                                    *)
(***************************************************************************)
EXTENDS Integers, Sequences, FiniteSets

\* ------------------------------------------------------------------ bounds

\* Number of instruments in the basket (the source lists 16).
NSemis == 13
\* Closing prices are drawn from 0..MaxPrice (0 makes a ratio inf or NaN).
MaxPrice == 2
\* Calendar dates are 1..MaxDate.
MaxDate == 2
\* Cap on how often the cycle body may run on one date.
MaxRuns == 2
\* Moving-average length of the regime filters, scaled down from the 200 of
\* src/strategy.py:30 so that series shorter than, equal to and longer than
\* the window can be enumerated.
regime_ma == 2

\* --------------------------------------------------------------- rationals

RECURSIVE GCD(_, _)
GCD(a, b) == IF b = 0 THEN a ELSE GCD(b, a % b)

Abs(x) == IF x < 0 THEN -x ELSE x

\* The rational n/d in lowest terms, d > 0.
R(n, d) ==
    LET g == GCD(Abs(n), Abs(d))
        s == IF d < 0 THEN -1 ELSE 1
    IN  <<s * (n \div g), s * (d \div g)>>

NaN == <<0, 0>>
IsNaN(x) == x[2] = 0
Zero == <<0, 1>>

\* a < b on rationals, by continued fractions: no product is formed, so a
\* tiny epsilon can be compared with an ordinary value.
RECURSIVE RLt(_, _)
RLt(a, b) ==
    LET qa == a[1] \div a[2]
        qb == b[1] \div b[2]
        ra == a[1] % a[2]
        rb == b[1] % b[2]
    IN  IF qa # qb THEN qa < qb
        ELSE IF rb = 0 THEN FALSE
        ELSE IF ra = 0 THEN TRUE
        ELSE RLt(<<b[2], rb>>, <<a[2], ra>>)

RLe(a, b) == ~RLt(b, a)
RNeg(a) == <<-a[1], a[2]>>
RAbs(a) == <<Abs(a[1]), a[2]>>
RAdd(a, b) == R(a[1] * b[2] + b[1] * a[2], a[2] * b[2])
RMul(a, b) == R(a[1] * b[1], a[2] * b[2])
RDiv(a, b) == R(a[1] * b[2], a[2] * b[1])
RInt(k) == <<k, 1>>
RMax(a, b) == IF RLt(a, b) THEN b ELSE a
RMin(a, b) == IF RLt(b, a) THEN b ELSE a

\* np.clip(x, lo, hi) == minimum(maximum(x, lo), hi)
Clip(x, lo, hi) == RMin(RMax(x, lo), hi)

\* -------------------------------------------------------------- parameters

target_annual_vol == R(10, 100)
max_gross == R(130, 100)
min_gross == R(20, 100)
min_names_each_side == 4
max_weight_per_name == R(12, 100)

gross_bull == R(110, 100)
gross_mixed == R(100, 100)
gross_neutral == R(80, 100)
gross_bear == R(90, 100)

\* Symbols: the basket in the order of self.semis, then the four signal
\* symbols.
semis == 1..NSemis
soxx == NSemis + 1
spy == NSemis + 2
ief == NSemis + 3
shy == NSemis + 4
Symbols == 1..(NSemis + 4)
needed == {soxx, spy, ief, shy}

Dates == 1..MaxDate
\* The value of _last_rebalance_date before the first cycle.
None == 0

VARIABLES
    Time,                 \* self.Time.date()
    IsWarmingUp,          \* self.IsWarmingUp
    last_rebalance_date,  \* self._last_rebalance_date
    Portfolio,            \* symbol -> holding as a fraction of portfolio value
    Tradable,             \* symbols for which _is_tradeable is true
    outcome,              \* how the latest trigger (or pure call) ended
    hist,                 \* kind of the latest History result
    close,                \* the price table of the latest cycle (signal columns)
    regime,               \* result of _compute_regime_score
    gross,                \* gross budget handed to _build_targets
    score,                \* result of _alpha_scores: symbol -> finite score
    target,               \* result of _build_targets: symbol -> weight
    liquidated,           \* symbols Liquidate was called on in the latest cycle
    set_holdings,         \* symbols SetHoldings was called on in the latest cycle
    runs,                 \* date -> number of times the cycle body ran
    aborted,              \* dates on which a cycle aborted on its history
    weighted              \* dates on which a weight map was computed

vars == <<Time, IsWarmingUp, last_rebalance_date, Portfolio, Tradable, outcome,
          hist, close, regime, gross, score, target, liquidated, set_holdings,
          runs, aborted, weighted>>

\* ------------------------------------------------------- regime classifier

\* A price table holds, for the signal symbols, the set of columns present
\* and one price series per column, all of the same length (the rows).
Series(len) == [1..len -> 0..MaxPrice]

RECURSIVE SumSeq(_)
SumSeq(s) == IF s = <<>> THEN Zero ELSE RAdd(Head(s), SumSeq(Tail(s)))

LastN(s, n) == SubSeq(s, Len(s) - n + 1, Len(s))

\* s.rolling(w).mean().iloc[-1]: NaN until w observations exist.
RollingMeanLast(s, w) ==
    IF Len(s) < w THEN NaN ELSE RDiv(SumSeq(LastN(s, w)), RInt(w))

AsRationals(s) == [i \in 1..Len(s) |-> RInt(s[i])]

\* (a / b).replace([inf, -inf], nan).dropna(): x/0 is inf (x > 0) or NaN
\* (x = 0); both are dropped, the finite ratios keep their order.
RECURSIVE SafeRatio(_, _)
SafeRatio(a, b) ==
    IF a = <<>> THEN <<>>
    ELSE IF Head(b) = 0 THEN SafeRatio(Tail(a), Tail(b))
    ELSE <<R(Head(a), Head(b))>> \o SafeRatio(Tail(a), Tail(b))

\* soxx_ma = soxx.rolling(regime_ma).mean().iloc[-1];
\* c1 = 1 if soxx.iloc[-1] > soxx_ma else 0   (a comparison with NaN is False)
PriceIndicator(s) ==
    LET ma == RollingMeanLast(AsRationals(s), regime_ma)
    IN  IF s = <<>> THEN [raised |-> TRUE, c |-> 0]
        ELSE [raised |-> FALSE,
              c |-> IF ~IsNaN(ma) /\ RLt(ma, RInt(s[Len(s)])) THEN 1 ELSE 0]

\* The length test in front of the rolling mean of a ratio series.
HasWindow(rs) == Len(rs) > regime_ma

\* rs_ma = rs.rolling(regime_ma).mean().iloc[-1] if len(rs) > regime_ma else nan
\* c2 = 1 if (not isnan(rs_ma) and rs.iloc[-1] > rs_ma) else 0
\* rs.iloc[-1] is read only when rs_ma is a number, so an empty rs raises
\* nothing.
RatioIndicator(rs) ==
    LET ma == IF HasWindow(rs) THEN RollingMeanLast(rs, regime_ma) ELSE NaN
    IN  IF IsNaN(ma) THEN [raised |-> FALSE, c |-> 0]
        ELSE IF rs = <<>> THEN [raised |-> TRUE, c |-> 0]
        ELSE [raised |-> FALSE, c |-> IF RLt(ma, rs[Len(rs)]) THEN 1 ELSE 0]

\* Result of the classifier when a needed column is absent.
DefaultRegime == 1

\* The classifier without its missing-column test: reading an absent column
\* raises, otherwise every indicator is computed as usual.
ComputeRegimeScoreNoDefault(tbl) ==
    IF needed \ tbl.columns # {}
    THEN [raised |-> TRUE, value |-> -1, indicators |-> <<>>]
    ELSE LET c1 == PriceIndicator(tbl.px[soxx])
             c2 == RatioIndicator(SafeRatio(tbl.px[soxx], tbl.px[spy]))
             c3 == RatioIndicator(SafeRatio(tbl.px[ief], tbl.px[shy]))
         IN  [raised |-> c1.raised \/ c2.raised \/ c3.raised,
              value |-> c1.c + c2.c + c3.c,
              indicators |-> <<c1.c, c2.c, c3.c>>]

\* _compute_regime_score(close): [raised, value, indicators]; indicators is
\* <<c1, c2, c3>>, or <<>> when none was evaluated.
ComputeRegimeScore(tbl) ==
    IF needed \ tbl.columns # {}
    THEN [raised |-> FALSE, value |-> DefaultRegime, indicators |-> <<>>]
    ELSE LET c1 == PriceIndicator(tbl.px[soxx])
             c2 == RatioIndicator(SafeRatio(tbl.px[soxx], tbl.px[spy]))
             c3 == RatioIndicator(SafeRatio(tbl.px[ief], tbl.px[shy]))
         IN  [raised |-> c1.raised \/ c2.raised \/ c3.raised,
              value |-> c1.c + c2.c + c3.c,
              indicators |-> <<c1.c, c2.c, c3.c>>]

\* ---------------------------------------------------- volatility targeter

\* sqrt(252) = 15.8745..., taken as 127/8.
Sqrt252 == R(127, 8)
VolEpsilon == R(1, 100000000)
AnnFloor == R(1, 1000)
One == R(1, 1)

\* _vol_target_scale, applied to vol = r.rolling(vol_target_window).std().iloc[-1]
VolTargetScale(vol) ==
    IF IsNaN(vol) \/ RLt(vol, VolEpsilon) THEN One
    ELSE LET ann == RMul(vol, Sqrt252)
             scale == RDiv(target_annual_vol, RMax(ann, AnnFloor))
         IN  Clip(scale, min_gross, max_gross)

\* Regime gross preset (before vol scaling).
BaseGross(rg) ==
    IF rg = 3 THEN gross_bull
    ELSE IF rg = 2 THEN gross_mixed
    ELSE IF rg = 1 THEN gross_neutral
    ELSE gross_bear

\* gross = float(np.clip(base_gross * gross_scale, 0.0, self.max_gross))
CycleGross(rg, scale) == Clip(RMul(BaseGross(rg), scale), Zero, max_gross)

\* --------------------------------------------------- portfolio constructor

\* _is_tradeable(sym): the security exists, is tradable, has data and a
\* positive price; Tradable is the set of symbols for which all of it holds.
is_tradeable(sym) == sym \in Tradable

\* A score map is a function from a set of basket symbols to scores; its
\* index order is the basket order (ascending symbol).
Restrict(sc, D) == [s \in D |-> sc[s]]

\* score[[sym for sym in score.index if self._is_tradeable(sym)]]
TradableScores(sc) == Restrict(sc, {s \in DOMAIN sc : is_tradeable(s)})

\* The entry pandas ranks first among D: the extreme score, and among equal
\* scores the one that comes first in the index (keep='first').
FirstLargest(sc, D) ==
    CHOOSE s \in D : \A t \in D : sc[s] > sc[t] \/ (sc[s] = sc[t] /\ s <= t)
FirstSmallest(sc, D) ==
    CHOOSE s \in D : \A t \in D : sc[s] < sc[t] \/ (sc[s] = sc[t] /\ s <= t)

RECURSIVE NLargestFrom(_, _, _)
NLargestFrom(sc, D, k) ==
    IF k = 0 \/ D = {} THEN <<>>
    ELSE LET s == FirstLargest(sc, D)
         IN  <<s>> \o NLargestFrom(sc, D \ {s}, k - 1)

RECURSIVE NSmallestFrom(_, _, _)
NSmallestFrom(sc, D, k) ==
    IF k = 0 \/ D = {} THEN <<>>
    ELSE LET s == FirstSmallest(sc, D)
         IN  <<s>> \o NSmallestFrom(sc, D \ {s}, k - 1)

\* score.nlargest(k).index.tolist() and score.nsmallest(k).index.tolist()
NLargest(sc, k) == NLargestFrom(sc, DOMAIN sc, k)
NSmallest(sc, k) == NSmallestFrom(sc, DOMAIN sc, k)

Range(seq) == {seq[i] : i \in 1..Len(seq)}
Max(a, b) == IF a > b THEN a ELSE b

\* The selection fractions with the one-sided regimes given the two-sided
\* fractions.
FractionTwoSided(rg) ==
    IF rg = 3 THEN 30 ELSE IF rg = 2 THEN 30 ELSE IF rg = 1 THEN 25 ELSE 25

\* Selection fraction of a regime, in percent.
Fraction(rg) ==
    IF rg = 3 THEN 40 ELSE IF rg = 2 THEN 30 ELSE IF rg = 1 THEN 25 ELSE 50

\* k = max(self.min_names_each_side, int(fraction * n))
SideCount(rg, n) == Max(min_names_each_side, (Fraction(rg) * n) \div 100)

\* The long weight without the per-name cap.
LongWeightUnclipped(g, names) == RDiv(g, RInt(Len(names)))

\* float(np.clip(g / len(names), 0, self.max_weight_per_name))
LongWeight(g, names) ==
    Clip(RDiv(g, RInt(Len(names))), Zero, max_weight_per_name)
\* float(np.clip(-g / len(names), -self.max_weight_per_name, 0))
ShortWeight(g, names) ==
    Clip(RDiv(RNeg(g), RInt(Len(names))), RNeg(max_weight_per_name), Zero)

Half == R(50, 100)
EmptyMap == [s \in {} |-> Zero]

\* The universe floor tested against one side's minimum only.
TooFewOneSide(sc) == Cardinality(DOMAIN sc) < min_names_each_side

\* The universe floor, tested before and after the tradability filter.
TooFew(sc) == Cardinality(DOMAIN sc) < 2 * min_names_each_side

\* The dict built by "for s in longs: target[s] = lw" followed by
\* "for s in shorts: target[s] = sw": a later assignment replaces an earlier.
Assign(longs, lw, shorts, sw) ==
    [s \in Range(longs) \cup Range(shorts) |->
        IF s \in Range(shorts) THEN sw ELSE lw]

\* _build_targets(score, regime, gross)
BuildTargets(sc, rg, g) ==
    IF TooFew(sc) THEN EmptyMap
    ELSE LET ts == TradableScores(sc)
             n == Cardinality(DOMAIN ts)
             k == SideCount(rg, n)
             longs == NLargest(ts, k)
             shorts == NSmallest(ts, k)
         IN  IF TooFew(ts) THEN EmptyMap
             ELSE IF rg = 3 THEN Assign(longs, LongWeight(g, longs), <<>>, Zero)
             ELSE IF rg \in {1, 2}
                  THEN Assign(longs, LongWeight(RMul(g, Half), longs),
                              shorts, ShortWeight(RMul(g, Half), shorts))
             ELSE Assign(<<>>, Zero, shorts, ShortWeight(g, shorts))

\* ---------------------------------------------------------------- inputs

MkTable(cols, s1, s2, s3, s4) ==
    [columns |-> cols,
     px |-> [c \in needed |->
                IF c \notin cols THEN <<>>
                ELSE IF c = soxx THEN s1
                ELSE IF c = spy THEN s2
                ELSE IF c = ief THEN s3
                ELSE s4]]

\* A series of regime_ma + 1 rows that stays at 1, and one that ends above
\* its own moving average.
Flat == [i \in 1..(regime_ma + 1) |-> 1]
Rising == [i \in 1..(regime_ma + 1) |-> IF i = regime_ma + 1 THEN 2 ELSE 1]

\* Price tables a cycle may receive: one per regime, one without the shy
\* column and one without the soxx column.
CycleCloses ==
    {MkTable(needed, a, Flat, b, Flat) : a \in {Flat, Rising}, b \in {Flat, Rising}}
    \cup {MkTable(needed \ {shy}, Rising, Flat, Rising, Flat),
          MkTable(needed \ {soxx}, Flat, Flat, Flat, Flat)}

\* Latest rolling standard deviation of daily returns: undefined, zero,
\* below the epsilon, below the annualised floor, near the target, above it,
\* and far above it.
VolInputs ==
    {NaN, Zero, R(1, 200000000), R(1, 100000), R(63, 10000), R(1, 100), R(1, 20)}

\* Score maps a cycle may receive: all basket names ranked without ties, all
\* names tied at 0 (constant prices), and too few names with a finite score.
Ranked == [s \in semis |-> s]
AllTied == [s \in semis |-> 0]
FewScored == [s \in 1..(2 * min_names_each_side - 1) |-> s]
CycleScores == {Ranked, AllTied, FewScored}

\* Tradability: every symbol, all but the first basket name, or all but
\* enough basket names to fall below the universe floor.
TradableInputs ==
    {Symbols, Symbols \ {1},
     Symbols \ (1..(NSemis - 2 * min_names_each_side + 1))}

HistInputs ==
    [kind : {"ok"}, close : CycleCloses, vol : VolInputs, score : CycleScores]

NoTable == MkTable({}, <<>>, <<>>, <<>>, <<>>)
NoRegime == [raised |-> FALSE, value |-> -1, indicators |-> <<>>]
Flat0 == [s \in Symbols |-> Zero]

\* ------------------------------------------------------------- Rebalance

\* An unhandled exception in a scheduled event ends the algorithm.
Running == outcome # "KeyError"

\* The handler without its same-date test.
DuplicateTriggerMissing == FALSE

\* if self._last_rebalance_date == self.Time.date(): return
DuplicateTrigger == last_rebalance_date = Time

\* The marker written only by a cycle that got a usable history.
MarkedDateLate(kind) == IF kind = "ok" THEN Time ELSE last_rebalance_date

\* self._last_rebalance_date = self.Time.date(), executed before History is
\* called: the marker is the same whatever kind of history comes back.
MarkedDate(kind) == Time

\* An aborting cycle that flattens the portfolio.
AbortFlatten == {s \in Symbols : Portfolio[s] # Zero}

\* The symbols an aborting cycle liquidates: it returns right after the log
\* line, so none.
AbortLiquidations == {}

Invested(p, s) == p[s] # Zero

\* for sym in list(self.Portfolio.Keys):
\*     if self.Portfolio[sym].Invested and sym not in target_syms: Liquidate
Liquidations(p, tg) == {s \in Symbols : Invested(p, s) /\ s \notin DOMAIN tg}

\* for sym, w in target.items(): if self._is_tradeable(sym): SetHoldings
HoldingsSet(tg) == {s \in DOMAIN tg : is_tradeable(s)}

\* Holdings after the calls, each filled at its target.
Applied(p, liq, tg) ==
    [s \in Symbols |->
        IF s \in HoldingsSet(tg) THEN tg[s]
        ELSE IF s \in liq THEN Zero
        ELSE p[s]]

NoLocals ==
    /\ hist' = "none"
    /\ close' = NoTable
    /\ regime' = NoRegime
    /\ gross' = NaN
    /\ score' = EmptyMap
    /\ target' = EmptyMap
    /\ liquidated' = {}
    /\ set_holdings' = {}

\* if self.IsWarmingUp: return
RebalanceWarmup ==
    /\ Running
    /\ IsWarmingUp
    /\ outcome' = "warmup"
    /\ NoLocals
    /\ UNCHANGED <<Time, IsWarmingUp, last_rebalance_date, Portfolio, Tradable,
                   runs, aborted, weighted>>

RebalanceDuplicate ==
    /\ Running
    /\ ~IsWarmingUp
    /\ DuplicateTrigger
    /\ outcome' = "duplicate"
    /\ NoLocals
    /\ UNCHANGED <<Time, IsWarmingUp, last_rebalance_date, Portfolio, Tradable,
                   runs, aborted, weighted>>

EnterBody ==
    /\ Running
    /\ ~IsWarmingUp
    /\ ~DuplicateTrigger
    /\ runs[Time] < MaxRuns
    /\ runs' = [runs EXCEPT ![Time] = @ + 1]

\* hist.empty ("No history.") or the reshape raised ("Reshape failed").
Abort(kind) ==
    /\ EnterBody
    /\ last_rebalance_date' = MarkedDate(kind)
    /\ hist' = kind
    /\ outcome' = kind
    /\ close' = NoTable
    /\ regime' = NoRegime
    /\ gross' = NaN
    /\ score' = EmptyMap
    /\ target' = EmptyMap
    /\ liquidated' = AbortLiquidations
    /\ set_holdings' = {}
    /\ Portfolio' = Applied(Portfolio, AbortLiquidations, EmptyMap)
    /\ aborted' = aborted \cup {Time}
    /\ UNCHANGED <<Time, IsWarmingUp, Tradable, weighted>>

RebalanceNoHistory == Abort("empty")
RebalanceReshapeFailed == Abort("malformed")

\* The table lacks the soxx column: the classifier answers its default, then
\* close[self.soxx] raises KeyError, which nothing catches.
RebalanceKeyError ==
    /\ EnterBody
    /\ \E h \in HistInputs :
        /\ soxx \notin h.close.columns
        /\ last_rebalance_date' = MarkedDate(h.kind)
        /\ hist' = h.kind
        /\ close' = h.close
        /\ regime' = ComputeRegimeScore(h.close)
    /\ outcome' = "KeyError"
    /\ gross' = NaN
    /\ score' = EmptyMap
    /\ target' = EmptyMap
    /\ liquidated' = {}
    /\ set_holdings' = {}
    /\ UNCHANGED <<Time, IsWarmingUp, Portfolio, Tradable, aborted, weighted>>

\* A cycle that runs to its log line.
RebalanceCycle ==
    /\ EnterBody
    /\ \E h \in HistInputs :
        /\ soxx \in h.close.columns
        /\ last_rebalance_date' = MarkedDate(h.kind)
        /\ hist' = h.kind
        /\ close' = h.close
        /\ regime' = ComputeRegimeScore(h.close)
        /\ gross' = CycleGross(regime'.value, VolTargetScale(h.vol))
        /\ score' = h.score
        /\ target' = BuildTargets(score', regime'.value, gross')
        /\ liquidated' = Liquidations(Portfolio, target')
        /\ set_holdings' = HoldingsSet(target')
        /\ Portfolio' = Applied(Portfolio, liquidated', target')
    /\ outcome' = "done"
    /\ weighted' = weighted \cup {Time}
    /\ UNCHANGED <<Time, IsWarmingUp, Tradable, aborted>>

Rebalance ==
    \/ RebalanceWarmup
    \/ RebalanceDuplicate
    \/ RebalanceNoHistory
    \/ RebalanceReshapeFailed
    \/ RebalanceKeyError
    \/ RebalanceCycle

\* --------------------------------------------------------- environment

\* The calendar moves to the next date.
Tick ==
    /\ Running
    /\ Time < MaxDate
    /\ Time' = Time + 1
    /\ UNCHANGED <<IsWarmingUp, last_rebalance_date, Portfolio, Tradable, outcome,
                   hist, close, regime, gross, score, target, liquidated,
                   set_holdings, runs, aborted, weighted>>

\* The warm-up period set by SetWarmup ends.
EndWarmup ==
    /\ Running
    /\ IsWarmingUp
    /\ IsWarmingUp' = FALSE
    /\ UNCHANGED <<Time, last_rebalance_date, Portfolio, Tradable, outcome,
                   hist, close, regime, gross, score, target, liquidated,
                   set_holdings, runs, aborted, weighted>>

\* Securities become tradable or stop being so.
SetTradable ==
    /\ Running
    /\ \E t \in TradableInputs : t # Tradable /\ Tradable' = t
    /\ UNCHANGED <<Time, IsWarmingUp, last_rebalance_date, Portfolio, outcome,
                   hist, close, regime, gross, score, target, liquidated,
                   set_holdings, runs, aborted, weighted>>

\* State after Initialize: warming up, no date processed, all cash.
Init ==
    /\ Time = 1
    /\ IsWarmingUp = TRUE
    /\ last_rebalance_date = None
    /\ Portfolio = Flat0
    /\ Tradable = Symbols
    /\ outcome = "none"
    /\ hist = "none"
    /\ close = NoTable
    /\ regime = NoRegime
    /\ gross = NaN
    /\ score = EmptyMap
    /\ target = EmptyMap
    /\ liquidated = {}
    /\ set_holdings = {}
    /\ runs = [d \in Dates |-> 0]
    /\ aborted = {}
    /\ weighted = {}

Next == Rebalance \/ Tick \/ EndWarmup \/ SetTradable

Spec == Init /\ [][Next]_vars

\* ------------------------------------- the classifier as a pure function

\* Tables of regime_ma - 1, regime_ma and regime_ma + 1 rows (at least one:
\* a cycle only classifies a table made from a non-empty history).
RowCounts == {n \in (regime_ma - 1)..(regime_ma + 1) : n >= 1}

\* The curve columns come from two shapes each.  ief stays at 1 or ends at 2;
\* shy is all ones, or all ones with a zero in the last row (the latest curve
\* ratio is then not finite and is dropped).
IefSeries(rows) ==
    {[i \in 1..rows |-> 1], [i \in 1..rows |-> IF i = rows THEN 2 ELSE 1]}
ShySeries(rows) ==
    {[i \in 1..rows |-> 1], [i \in 1..rows |-> IF i = rows THEN 0 ELSE 1]}

\* Every needed column is present, or exactly one is absent.
ColumnSets == {needed} \cup {needed \ {c} : c \in needed}

InitRegime ==
    /\ \E rows \in RowCounts, cols \in ColumnSets :
        \E s1 \in Series(rows), s2 \in Series(rows),
           s3 \in IefSeries(rows), s4 \in ShySeries(rows) :
            close = MkTable(cols, s1, s2, s3, s4)
    /\ outcome = "input"
    /\ Time = 1
    /\ IsWarmingUp = FALSE
    /\ last_rebalance_date = None
    /\ Portfolio = Flat0
    /\ Tradable = Symbols
    /\ hist = "ok"
    /\ regime = NoRegime
    /\ gross = NaN
    /\ score = EmptyMap
    /\ target = EmptyMap
    /\ liquidated = {}
    /\ set_holdings = {}
    /\ runs = [d \in Dates |-> 0]
    /\ aborted = {}
    /\ weighted = {}

\* regime = self._compute_regime_score(close)
Classify ==
    /\ outcome = "input"
    /\ regime' = ComputeRegimeScore(close)
    /\ outcome' = "classified"
    /\ UNCHANGED <<Time, IsWarmingUp, last_rebalance_date, Portfolio, Tradable,
                   hist, close, gross, score, target, liquidated, set_holdings,
                   runs, aborted, weighted>>

NextRegime == Classify

SpecRegime == InitRegime /\ [][NextRegime]_vars

\* ------------------------------------ the constructor as a pure function

\* Only the order of the scores matters to the constructor.  Score maps
\* over the whole basket or over too few names with every two-level pattern
\* of ties, three-level maps that step up or down along the basket, and the
\* tie-free ranking.
ScoreLevels == {0, 1}
StepUp(a, b) ==
    [s \in semis |-> (IF s > a THEN 1 ELSE 0) + (IF s > b THEN 1 ELSE 0)]
StepDown(a, b) ==
    [s \in semis |-> (IF s <= a THEN 1 ELSE 0) + (IF s <= b THEN 1 ELSE 0)]
FewNames == 1..(2 * min_names_each_side - 1)

\* Gross budgets: nothing, one the per-name cap never binds on, the maximum.
GrossInputs == {Zero, R(40, 100), max_gross}

RegimeInputs == {[raised |-> FALSE, value |-> v, indicators |-> <<>>] : v \in 0..3}

InitTargets ==
    /\ \/ score \in [semis -> ScoreLevels]
       \/ score \in [FewNames -> ScoreLevels]
       \/ \E a \in semis, b \in semis : score \in {StepUp(a, b), StepDown(a, b)}
       \/ score = Ranked
    /\ regime \in RegimeInputs
    /\ gross \in GrossInputs
    /\ Tradable \in TradableInputs
    /\ outcome = "input"
    /\ Time = 1
    /\ IsWarmingUp = FALSE
    /\ last_rebalance_date = None
    /\ Portfolio = Flat0
    /\ hist = "ok"
    /\ close = NoTable
    /\ target = EmptyMap
    /\ liquidated = {}
    /\ set_holdings = {}
    /\ runs = [d \in Dates |-> 0]
    /\ aborted = {}
    /\ weighted = {}

\* target = self._build_targets(score, regime, gross)
Build ==
    /\ outcome = "input"
    /\ target' = BuildTargets(score, regime.value, gross)
    /\ outcome' = "built"
    /\ UNCHANGED <<Time, IsWarmingUp, last_rebalance_date, Portfolio, Tradable,
                   hist, close, regime, gross, score, liquidated, set_holdings,
                   runs, aborted, weighted>>

NextTargets == Build

SpecTargets == InitTargets /\ [][NextTargets]_vars

\* ================================================================ claims

AbortKinds == {"empty", "malformed"}
\* The step ran the cycle body (it fetched history).
BodyStep == runs' # runs

\* C1: with dates arriving in non-decreasing order the cycle body runs at
\* most once per calendar date, and while the current date is the last
\* processed date no step changes the guard, the portfolio or the count of
\* body runs.
C1_AtMostOncePerDate ==
    /\ [](\A d \in Dates : runs[d] <= 1)
    /\ [][(~IsWarmingUp /\ last_rebalance_date = Time)
            => /\ last_rebalance_date' = last_rebalance_date
               /\ Portfolio' = Portfolio
               /\ runs' = runs]_vars

\* A trigger was rejected as a duplicate on a date whose cycle left holdings.
C1_Witness ==
    /\ outcome = "duplicate"
    /\ runs[Time] = 1
    /\ Time \in weighted
    /\ Portfolio # Flat0

\* C2: a cycle whose history is empty or cannot be reshaped computes no
\* weight, issues no Liquidate and no SetHoldings call, and leaves every
\* holding as it was.
C2_AbortLeavesPortfolio ==
    [][(BodyStep /\ hist' \in AbortKinds)
        => /\ Portfolio' = Portfolio
           /\ liquidated' = {}
           /\ set_holdings' = {}
           /\ target' = EmptyMap
           /\ IsNaN(gross')]_vars

\* A cycle aborted on an empty history while the portfolio held positions.
C2_Witness ==
    /\ outcome = "empty"
    /\ hist = "empty"
    /\ Time \in aborted
    /\ Portfolio # Flat0

\* C3: every weight of the map the constructor returns is at most
\* max_weight_per_name in magnitude, for every regime, score map and gross
\* budget >= 0.
C3_PerNameCap ==
    outcome = "built" =>
        \A s \in DOMAIN target : RLe(RAbs(target[s]), max_weight_per_name)

\* A built map in which the cap binds on a long and on a short name.
C3_Witness ==
    /\ outcome = "built"
    /\ RLe(Zero, gross)
    /\ \E s \in DOMAIN target : target[s] = max_weight_per_name
    /\ \E s \in DOMAIN target : target[s] = RNeg(max_weight_per_name)

\* Names of a score map that are tradable.
ScoredTradable(sc) == {s \in DOMAIN sc : s \in Tradable}

\* C4: when fewer than 2 * min_names_each_side names are both scored and
\* tradable the constructor returns the empty map, whatever the regime, and
\* the cycle liquidates every invested holding and sets no weight.
C4_TooFewGoesFlat ==
    [][(BodyStep /\ outcome' = "done"
        /\ Cardinality(ScoredTradable(score')) < 2 * min_names_each_side)
        => /\ target' = EmptyMap
           /\ liquidated' = {s \in Symbols : Portfolio[s] # Zero}
           /\ set_holdings' = {}
           /\ Portfolio' = Flat0]_vars

\* A completed cycle with too few names that liquidated existing holdings.
C4_Witness ==
    /\ outcome = "done"
    /\ Cardinality(ScoredTradable(score)) < 2 * min_names_each_side
    /\ target = EmptyMap
    /\ liquidated # {}
    /\ Portfolio = Flat0

\* C5: in every completed cycle the gross budget handed to the constructor
\* lies in [min_gross, max_gross].
C5_GrossWithinBounds ==
    outcome = "done" => RLe(min_gross, gross) /\ RLe(gross, max_gross)

\* Number of indicators whose series holds at least regime_ma finite
\* observations.
Computable(tbl) ==
    (IF Len(tbl.px[soxx]) >= regime_ma THEN 1 ELSE 0)
    + (IF Len(SafeRatio(tbl.px[soxx], tbl.px[spy])) >= regime_ma THEN 1 ELSE 0)
    + (IF Len(SafeRatio(tbl.px[ief], tbl.px[shy])) >= regime_ma THEN 1 ELSE 0)

\* C6: the classifier raises nothing and returns an integer in 0..3; with a
\* needed column absent it returns exactly 1 and evaluates no indicator; an
\* indicator without enough finite observations (an all-NaN ratio included)
\* contributes 0.
C6_RegimeTotal ==
    outcome = "classified" =>
        /\ ~regime.raised
        /\ regime.value \in 0..3
        /\ (needed \ close.columns # {}
                => regime.value = 1 /\ regime.indicators = <<>>)
        /\ (needed \ close.columns = {}
                => /\ Len(regime.indicators) = 3
                   /\ regime.value <= Computable(close))

\* A table without the soxx column, whose other columns are long enough to
\* be compared, was classified as 1.
C6_Witness ==
    /\ outcome = "classified"
    /\ soxx \notin close.columns
    /\ Len(close.px[ief]) > regime_ma
    /\ regime.value = 1

\* The weight a name gets from an allotment g shared by k names under the cap.
Capped(g, k) ==
    IF RLt(max_weight_per_name, RDiv(g, RInt(k)))
    THEN max_weight_per_name ELSE RDiv(g, RInt(k))

\* C7: with n >= 2 * min_names_each_side tradable scored names, Bull (3)
\* returns exactly k = max(min_names_each_side, floor(0.40 n)) entries, the k
\* highest scores, each at clip(gross / k, 0, cap) and none negative; Bear (0)
\* returns exactly k = max(min_names_each_side, floor(0.50 n)) entries, the k
\* lowest scores, each at clip(-gross / k, -cap, 0).
C7_OneSided ==
    LET D == ScoredTradable(score)
        n == Cardinality(D)
        kbull == Max(min_names_each_side, (2 * n) \div 5)
        kbear == Max(min_names_each_side, n \div 2)
    IN  (outcome = "built" /\ n >= 2 * min_names_each_side) =>
            /\ regime.value = 3 =>
                /\ Cardinality(DOMAIN target) = kbull
                /\ DOMAIN target \subseteq D
                /\ \A s \in DOMAIN target :
                    /\ \A t \in D \ DOMAIN target : score[s] >= score[t]
                    /\ target[s] = Capped(gross, kbull)
                    /\ ~RLt(target[s], Zero)
            /\ regime.value = 0 =>
                /\ Cardinality(DOMAIN target) = kbear
                /\ DOMAIN target \subseteq D
                /\ \A s \in DOMAIN target :
                    /\ \A t \in D \ DOMAIN target : score[s] <= score[t]
                    /\ target[s] = RNeg(Capped(gross, kbear))

\* Bull over the whole basket with tied scores: floor(0.40 n) exceeds
\* min_names_each_side and the cap does not bind.
C7_Witness ==
    /\ outcome = "built"
    /\ regime.value = 3
    /\ Cardinality(ScoredTradable(score)) = NSemis
    /\ Cardinality(DOMAIN target) > min_names_each_side
    /\ \E s \in DOMAIN target :
        /\ RLt(Zero, target[s])
        /\ RLt(target[s], max_weight_per_name)
    /\ \E s \in DOMAIN target, t \in DOMAIN score \ DOMAIN target :
        score[s] = score[t]

\* Top k by descending score and bottom k by ascending score, ties in the
\* order of the score map.
TopK(sc, D, k) ==
    {s \in D : Cardinality({t \in D : sc[t] > sc[s] \/ (sc[t] = sc[s] /\ t < s)}) < k}
BottomK(sc, D, k) ==
    {s \in D : Cardinality({t \in D : sc[t] < sc[s] \/ (sc[t] = sc[s] /\ t < s)}) < k}

RECURSIVE SumWeights(_, _)
SumWeights(tg, S) ==
    IF S = {} THEN Zero
    ELSE LET s == CHOOSE x \in S : TRUE
         IN  RAdd(tg[s], SumWeights(tg, S \ {s}))

PositiveSum(tg) == SumWeights(tg, {s \in DOMAIN tg : RLt(Zero, tg[s])})
NegativeSum(tg) == SumWeights(tg, {s \in DOMAIN tg : RLt(tg[s], Zero)})

\* C8: in Mixed (2) and Neutral (1), with n >= 2 * min_names_each_side
\* tradable scored names, the top k names get clip(0.5 gross / k, 0, cap) and
\* the bottom k names get clip(-0.5 gross / k, -cap, 0); the positive weights
\* sum to 0.5 gross and the negative ones to -0.5 gross when the cap does not
\* bind, and to no more in magnitude when it does.
C8_TwoSided ==
    LET D == ScoredTradable(score)
        n == Cardinality(D)
        k == IF regime.value = 2
             THEN Max(min_names_each_side, (3 * n) \div 10)
             ELSE Max(min_names_each_side, n \div 4)
        side == RMul(gross, Half)
        free == RLe(RDiv(side, RInt(k)), max_weight_per_name)
    IN  (outcome = "built" /\ regime.value \in {1, 2}
         /\ n >= 2 * min_names_each_side) =>
            /\ \A s \in TopK(score, D, k) :
                s \in DOMAIN target /\ target[s] = Capped(side, k)
            /\ \A s \in BottomK(score, D, k) :
                s \in DOMAIN target /\ target[s] = RNeg(Capped(side, k))
            /\ free => /\ PositiveSum(target) = side
                       /\ NegativeSum(target) = RNeg(side)
            /\ ~free => /\ RLe(PositiveSum(target), side)
                        /\ RLe(RNeg(side), NegativeSum(target))

\* 1 when the series holds at least regime_ma observations and its latest
\* value exceeds the mean of its latest regime_ma values, else 0.
ExceedsMean(rs) ==
    IF Len(rs) >= regime_ma
       /\ RLt(RDiv(SumSeq(LastN(rs, regime_ma)), RInt(regime_ma)), rs[Len(rs)])
    THEN 1 ELSE 0

\* C9: each of the three indicators is 1 exactly when its series holds at
\* least regime_ma finite observations and its latest value exceeds the mean
\* of the latest regime_ma; a series of exactly regime_ma observations is
\* compared.
C9_IndicatorsCompareAtWindow ==
    (outcome = "classified" /\ needed \ close.columns = {}) =>
        regime.indicators =
            <<ExceedsMean(AsRationals(close.px[soxx])),
              ExceedsMean(SafeRatio(close.px[soxx], close.px[spy])),
              ExceedsMean(SafeRatio(close.px[ief], close.px[shy]))>>

\* C10: the marker is written when a trigger outside warm-up passes the
\* duplicate test, before the history is looked at: a cycle that aborts on
\* its history has marked its date, no weight map is ever computed on a date
\* whose cycle aborted, and no step taken during warm-up changes the marker.
C10_MarkerBeforeFetch ==
    /\ [](aborted \cap weighted = {})
    /\ [][(BodyStep /\ hist' \in AbortKinds) => last_rebalance_date' = Time]_vars
    /\ [][IsWarmingUp => last_rebalance_date' = last_rebalance_date]_vars

\* After a cycle aborted on its history, a later trigger on the same date was
\* rejected, and no weight map was computed on that date.
C10_Witness ==
    /\ outcome = "duplicate"
    /\ Time \in aborted
    /\ last_rebalance_date = Time
    /\ Time \notin weighted

====
